---- MODULE Spec2Model ----
(***************************************************************************)
(* CameraEncoderBridge (camera_encoder_bridge.cpp): the capture-session    *)
(* state machine (startCapture / stopCapture / cleanup), the asynchronous  *)
(* device notifications and the per-image callback, together with a ledger *)
(* of the NDK objects the bridge creates and releases.                     *)
(*                                                                         *)
(* Program positions are named after the source line about to execute      *)
(* ("L55" = the AImageReader_new call at line 55).  A null handle, an      *)
(* empty camera id and an empty std::function are 0.                       *)
(***************************************************************************)
EXTENDS Integers, FiniteSets, Sequences, TLC

\* ------------------------------------------------------------------ bounds
\* camera ids a caller may pass
NumCameras == 2
\* distinct frame callbacks a caller may pass
NumCallbacks == 2
\* objects of one kind the NDK can have alive at once
MaxHandles == 2

\* width and height of an image are in 1..MaxDim
MaxDim == 4
\* bytes of padding at the end of a plane's row are in 0..MaxPadding
MaxPadding == 1
\* the chroma pixel stride is in 1..MaxPixelStride
MaxPixelStride == 2

\* line 11: the reader holds at most kMaxImages acquired images
kMaxImages == 4

CameraIds == 1..NumCameras
Callbacks == 1..NumCallbacks
Ids == 1..MaxHandles
\* application threads that may call startCapture / stopCapture
Threads == {"t1", "t2"}

\* the kinds of NDK object the bridge owns
Kinds == {"reader", "device", "target", "request", "container", "output", "session"}

VARIABLES
    this,         \* the fields of the CameraEncoderBridge instance
    mutex_,       \* the thread holding mutex_, or "free"
    th,           \* per application thread: position and locals of its call
    callers,      \* the application threads that use the bridge
    destroyed,    \* the destructor has returned
    ndk,          \* the camera / media provider's view of the objects it handed out
    img,          \* the image-delivery thread: position and locals of onImageAvailable
    crashed,      \* the process terminated
    retired,      \* history: the callbacks still held somewhere whose session a
                  \* returned stopCapture tore down
    conv          \* the I420 packing of one image (lines 278-332): the image, the
                  \* buffer and the position in the code

vars == <<this, mutex_, th, callers, destroyed, ndk, img, crashed, retired, conv>>

\* ------------------------------------------------------------ initial state
\* camera_encoder_bridge.h:68-82, the member initialisers
NewBridge ==
    [capturing_ |-> FALSE, currentCameraId_ |-> 0, frameCallback_ |-> 0,
     cameraDevice_ |-> 0, captureSession_ |-> 0, outputContainer_ |-> 0,
     sessionOutput_ |-> 0, outputTarget_ |-> 0, captureRequest_ |-> 0,
     imageReader_ |-> 0, imageReaderWindow_ |-> 0]

\* a thread outside any call.  cont: where cleanup() returns to; retLine: the
\* return statement reached; acquired / oldPipe / stopCb: history of the call;
\* afterStop: the thread's previous call was a stopCapture that ran cleanup()
IdleThread ==
    [pc |-> "idle", op |-> "none", cameraId |-> 0, callback |-> 0, cont |-> 0,
     retLine |-> 0, acquired |-> {}, oldPipe |-> {}, stopCb |-> 0,
     afterStop |-> FALSE]

\* seen: the callback the check at line 252 found; late: the callback invoked at
\* line 332 belonged to a session that a returned stopCapture had torn down;
\* path: how the last onImageAvailable returned
IdleImage == [pc |-> "idle", reader |-> 0, seen |-> 0, late |-> FALSE, path |-> "none"]

ImageReturn(how) == [IdleImage EXCEPT !.path = how]

\* live: per kind, the objects created and not yet released
\* listeners: readers with an image listener; requestTargets: requests with a
\* target; containerOutputs: containers with an output
\* repeating: <<session, reader, device>> with a repeating request running
\* faulted: open devices that reported a disconnect or an error
\* misreleased: kinds of which an object was released while not live
\* images: images acquired from a reader and not yet deleted
NoObjects ==
    [live |-> [k \in Kinds |-> {}], listeners |-> {}, requestTargets |-> {},
     containerOutputs |-> {}, repeating |-> {}, faulted |-> {},
     misreleased |-> {}, images |-> 0]

\* no image is being packed
NoFrame == [pc |-> "none"]

InitWith(ts) ==
    /\ this = NewBridge
    /\ mutex_ = "free"
    /\ th = [t \in Threads |-> IdleThread]
    /\ callers = ts
    /\ destroyed = FALSE
    /\ ndk = NoObjects
    /\ img = IdleImage
    /\ crashed = FALSE
    /\ retired = {}
    /\ conv = NoFrame

Init == InitWith({"t1"})

\* ------------------------------------------------------------ NDK provider
\* a creation call can succeed only while the provider has a handle to give
CanAlloc(k) == ndk.live[k] # Ids

\* the handle a successful creation call returns
Alloc(k) ==
    CHOOSE i \in Ids : i \notin ndk.live[k] /\ \A j \in Ids : j \notin ndk.live[k] => i <= j

Created(k) == [ndk EXCEPT !.live[k] = @ \cup {Alloc(k)}]

\* provider state n after object id of kind k was released; releasing an
\* object that is not live is recorded against its kind
Released(n, k, id) ==
    [n EXCEPT !.live[k] = @ \ {id},
              !.misreleased = IF id \in n.live[k] THEN @ ELSE @ \cup {k}]

\* the objects the handles of the instance refer to
PipelineResources ==
    {<<"reader", this.imageReader_>>, <<"device", this.cameraDevice_>>,
     <<"target", this.outputTarget_>>, <<"request", this.captureRequest_>>,
     <<"container", this.outputContainer_>>, <<"output", this.sessionOutput_>>,
     <<"session", this.captureSession_>>} \ {<<k, 0>> : k \in Kinds}

\* --------------------------------------------------------- caller threads
\* thread t is about to execute the statement at line l
At(t, l) == ~crashed /\ th[t].pc = l

Goto(t, l) == [th EXCEPT ![t].pc = l]

\* a failed construction step: run cleanup(), then return false at `line`
Fail(t, line) == [th EXCEPT ![t].pc = "L196", ![t].cont = line]

\* return statement at `line` (the lock_guard still held)
ReturnAt(t, line) == [th EXCEPT ![t].pc = "ret", ![t].retLine = line]

\* the value startCapture returns at `line`: true at lines 38 and 183, false
\* at line 46 and after every failed construction step
RetValue(line) == line \in {38, 183}

\* the return statements that follow a failed construction step
FailLines == {59, 69, 77, 95, 105, 113, 121, 129, 137, 145, 164, 178}

\* a creation call of kind k succeeded; continue at line l
Acquire(t, k, l) ==
    [th EXCEPT ![t].pc = l, ![t].acquired = @ \cup {<<k, Alloc(k)>>}]

\* Camera ids are values of which the code only tests equality (line 36): a
\* caller passes the id in use, or one representative of the others.
CameraChoices ==
    LET free == CameraIds \ {this.currentCameraId_}
    IN  ({this.currentCameraId_} \ {0}) \cup {c \in free : \A d \in free : c <= d}

\* the callback objects some thread or field still holds
Held(bridge, image, threads) ==
    ({bridge.frameCallback_, image.seen}
        \cup {threads[t].callback : t \in Threads}
        \cup {threads[t].stopCb : t \in Threads}) \ {0}

\* Every call constructs its own std::function: it is named by the smallest
\* id that no thread or field holds any more.
NewCallback == 
    LET free == Callbacks \ Held(this, img, th)
    IN  {f \in free : \A g \in free : f <= g}

\* startCapture(cameraId, width, height, callback) is called
CallStartCapture(t) ==
    /\ At(t, "idle") /\ t \in callers /\ ~destroyed
    /\ \E c \in CameraChoices, f \in NewCallback :
          th' = [th EXCEPT ![t] = [IdleThread EXCEPT !.pc = "L33", !.op = "start",
                                                      !.cameraId = c, !.callback = f]]
    /\ UNCHANGED <<this, mutex_, callers, conv, destroyed, ndk, img, crashed, retired>>

\* stopCapture() is called
CallStopCapture(t) ==
    /\ At(t, "idle") /\ t \in callers /\ ~destroyed
    /\ th' = [th EXCEPT ![t] = [IdleThread EXCEPT !.pc = "L187", !.op = "stop",
                                                  !.afterStop = th[t].afterStop]]
    /\ UNCHANGED <<this, mutex_, callers, conv, destroyed, ndk, img, crashed, retired>>

\* lines 25-28: ~CameraEncoderBridge() calls stopCapture(); it runs once,
\* when no other call is in progress
CallDestructor(t) ==
    /\ At(t, "idle") /\ t \in callers /\ ~destroyed
    /\ \A u \in Threads : th[u].pc = "idle"
    /\ th' = [th EXCEPT ![t] = [IdleThread EXCEPT !.pc = "L187", !.op = "destroy",
                                                  !.afterStop = th[t].afterStop]]
    /\ UNCHANGED <<this, mutex_, callers, conv, destroyed, ndk, img, crashed, retired>>

\* variant of StartLock that enters without waiting for the mutex
StartLock_NoWait(t) ==
    /\ At(t, "L33")
    /\ mutex_' = t
    /\ th' = Goto(t, "L35")
    /\ UNCHANGED <<this, callers, conv, destroyed, ndk, img, crashed, retired>>

\* line 33: std::lock_guard<std::mutex> lock(mutex_) of startCapture
StartLock(t) ==
    /\ At(t, "L33") /\ mutex_ = "free"
    /\ mutex_' = t
    /\ th' = Goto(t, "L35")
    /\ UNCHANGED <<this, callers, conv, destroyed, ndk, img, crashed, retired>>

\* variant of StartSameCamera that installs the callback passed to the call
\* before it returns at line 38
StartSameCamera_Install(t) ==
    /\ At(t, "L35")
    /\ this.capturing_ /\ this.currentCameraId_ = th[t].cameraId
    /\ this' = [this EXCEPT !.frameCallback_ = th[t].callback]
    /\ th' = ReturnAt(t, 38)
    /\ UNCHANGED <<mutex_, callers, conv, destroyed, ndk, img, crashed, retired>>

\* lines 35-39: already capturing this camera
StartSameCamera(t) ==
    /\ At(t, "L35")
    /\ this.capturing_ /\ this.currentCameraId_ = th[t].cameraId
    /\ th' = ReturnAt(t, 38)
    /\ UNCHANGED <<this, mutex_, callers, conv, destroyed, ndk, img, crashed, retired>>

\* variant of StartSwitch that goes on to line 44 without calling cleanup()
StartSwitch_NoCleanup(t) ==
    /\ At(t, "L35")
    /\ this.capturing_ /\ this.currentCameraId_ # th[t].cameraId
    /\ th' = [th EXCEPT ![t].pc = "L44", ![t].oldPipe = PipelineResources]
    /\ UNCHANGED <<this, mutex_, callers, conv, destroyed, ndk, img, crashed, retired>>

\* lines 35-41: capturing another camera, tear the session down first
StartSwitch(t) ==
    /\ At(t, "L35")
    /\ this.capturing_ /\ this.currentCameraId_ # th[t].cameraId
    /\ th' = [th EXCEPT ![t].pc = "L196", ![t].cont = 42,
                        ![t].oldPipe = PipelineResources]
    /\ UNCHANGED <<this, mutex_, callers, conv, destroyed, ndk, img, crashed, retired>>

\* variant of StartNotCapturing that sets capturing_ before the construction
StartNotCapturing_MarkEarly(t) ==
    /\ At(t, "L35")
    /\ ~this.capturing_
    /\ this' = [this EXCEPT !.capturing_ = TRUE]
    /\ th' = Goto(t, "L44")
    /\ UNCHANGED <<mutex_, callers, conv, destroyed, ndk, img, crashed, retired>>

\* line 35: capturing_ is false
StartNotCapturing(t) ==
    /\ At(t, "L35")
    /\ ~this.capturing_
    /\ th' = Goto(t, "L44")
    /\ UNCHANGED <<this, mutex_, callers, conv, destroyed, ndk, img, crashed, retired>>

\* lines 44-52: manager_.isValid(), then install the callback and the camera id
StartCheckManager(t) ==
    /\ At(t, "L44")
    /\ \/ /\ th' = ReturnAt(t, 46)
          /\ UNCHANGED <<this, retired>>
       \/ /\ this' = [this EXCEPT !.frameCallback_ = th[t].callback,
                                  !.currentCameraId_ = th[t].cameraId]
          /\ th' = [Goto(t, "L55") EXCEPT ![t].oldPipe = {}, ![t].callback = 0]
          /\ retired' = retired \cap Held(this', img, th')
    /\ UNCHANGED <<mutex_, callers, conv, destroyed, ndk, img, crashed>>

\* lines 55-60: AImageReader_new; a failed call leaves the handle as it was
NewImageReader(t) ==
    /\ At(t, "L55")
    /\ \/ /\ CanAlloc("reader")
          /\ this' = [this EXCEPT !.imageReader_ = Alloc("reader")]
          /\ ndk' = Created("reader")
          /\ th' = Acquire(t, "reader", "L65")
       \/ /\ th' = Fail(t, 59)
          /\ UNCHANGED <<this, ndk>>
    /\ UNCHANGED <<mutex_, callers, conv, destroyed, img, crashed, retired>>

\* lines 63-70: AImageReader_setImageListener
SetImageListener(t) ==
    /\ At(t, "L65")
    /\ \/ /\ ndk' = [ndk EXCEPT !.listeners = @ \cup {this.imageReader_}]
          /\ th' = Goto(t, "L73")
       \/ /\ th' = Fail(t, 69)
          /\ UNCHANGED ndk
    /\ UNCHANGED <<this, mutex_, callers, conv, destroyed, img, crashed, retired>>

\* lines 73-78: AImageReader_getWindow; the window belongs to the reader and
\* carries the reader's id
GetWindow(t) ==
    /\ At(t, "L73")
    /\ \/ /\ this' = [this EXCEPT !.imageReaderWindow_ = this.imageReader_]
          /\ th' = Goto(t, "L86")
       \/ /\ th' = Fail(t, 77)
          /\ UNCHANGED this
    /\ UNCHANGED <<mutex_, callers, conv, destroyed, ndk, img, crashed, retired>>

\* lines 81-96: ACameraManager_openCamera with the device callbacks; a failed call leaves the handle as it was
OpenCamera(t) ==
    /\ At(t, "L86")
    /\ \/ /\ CanAlloc("device")
          /\ this' = [this EXCEPT !.cameraDevice_ = Alloc("device")]
          /\ ndk' = Created("device")
          /\ th' = Acquire(t, "device", "L101")
       \/ /\ th' = Fail(t, 95)
          /\ UNCHANGED <<this, ndk>>
    /\ UNCHANGED <<mutex_, callers, conv, destroyed, img, crashed, retired>>

\* lines 101-106: ACameraOutputTarget_create; a failed call leaves the handle as it was
CreateOutputTarget(t) ==
    /\ At(t, "L101")
    /\ \/ /\ CanAlloc("target")
          /\ this' = [this EXCEPT !.outputTarget_ = Alloc("target")]
          /\ ndk' = Created("target")
          /\ th' = Acquire(t, "target", "L109")
       \/ /\ th' = Fail(t, 105)
          /\ UNCHANGED <<this, ndk>>
    /\ UNCHANGED <<mutex_, callers, conv, destroyed, img, crashed, retired>>

\* lines 109-114: ACameraDevice_createCaptureRequest; a failed call leaves the handle as it was
CreateCaptureRequest(t) ==
    /\ At(t, "L109")
    /\ \/ /\ CanAlloc("request")
          /\ this' = [this EXCEPT !.captureRequest_ = Alloc("request")]
          /\ ndk' = Created("request")
          /\ th' = Acquire(t, "request", "L117")
       \/ /\ th' = Fail(t, 113)
          /\ UNCHANGED <<this, ndk>>
    /\ UNCHANGED <<mutex_, callers, conv, destroyed, img, crashed, retired>>

\* lines 117-122: ACaptureRequest_addTarget
AddTarget(t) ==
    /\ At(t, "L117")
    /\ \/ /\ ndk' = [ndk EXCEPT !.requestTargets = @ \cup {this.captureRequest_}]
          /\ th' = Goto(t, "L125")
       \/ /\ th' = Fail(t, 121)
          /\ UNCHANGED ndk
    /\ UNCHANGED <<this, mutex_, callers, conv, destroyed, img, crashed, retired>>

\* lines 125-130: ACaptureSessionOutputContainer_create; a failed call leaves the handle as it was
CreateOutputContainer(t) ==
    /\ At(t, "L125")
    /\ \/ /\ CanAlloc("container")
          /\ this' = [this EXCEPT !.outputContainer_ = Alloc("container")]
          /\ ndk' = Created("container")
          /\ th' = Acquire(t, "container", "L133")
       \/ /\ th' = Fail(t, 129)
          /\ UNCHANGED <<this, ndk>>
    /\ UNCHANGED <<mutex_, callers, conv, destroyed, img, crashed, retired>>

\* lines 133-138: ACaptureSessionOutput_create; a failed call leaves the handle as it was
CreateSessionOutput(t) ==
    /\ At(t, "L133")
    /\ \/ /\ CanAlloc("output")
          /\ this' = [this EXCEPT !.sessionOutput_ = Alloc("output")]
          /\ ndk' = Created("output")
          /\ th' = Acquire(t, "output", "L141")
       \/ /\ th' = Fail(t, 137)
          /\ UNCHANGED <<this, ndk>>
    /\ UNCHANGED <<mutex_, callers, conv, destroyed, img, crashed, retired>>

\* lines 141-146: ACaptureSessionOutputContainer_add
AddOutput(t) ==
    /\ At(t, "L141")
    /\ \/ /\ ndk' = [ndk EXCEPT !.containerOutputs = @ \cup {this.outputContainer_}]
          /\ th' = Goto(t, "L155")
       \/ /\ th' = Fail(t, 145)
          /\ UNCHANGED ndk
    /\ UNCHANGED <<this, mutex_, callers, conv, destroyed, img, crashed, retired>>

\* lines 149-165: ACameraDevice_createCaptureSession; a failed call leaves the handle as it was
CreateCaptureSession(t) ==
    /\ At(t, "L155")
    /\ \/ /\ CanAlloc("session")
          /\ this' = [this EXCEPT !.captureSession_ = Alloc("session")]
          /\ ndk' = Created("session")
          /\ th' = Acquire(t, "session", "L168")
       \/ /\ th' = Fail(t, 164)
          /\ UNCHANGED <<this, ndk>>
    /\ UNCHANGED <<mutex_, callers, conv, destroyed, img, crashed, retired>>

\* lines 168-179: ACameraCaptureSession_setRepeatingRequest; frames now flow
\* into the reader behind the window
SetRepeatingRequest(t) ==
    /\ At(t, "L168")
    /\ \/ /\ ndk' = [ndk EXCEPT !.repeating = @ \cup {<<this.captureSession_,
                                         this.imageReaderWindow_, this.cameraDevice_>>}]
          /\ th' = Goto(t, "L181")
       \/ /\ th' = Fail(t, 178)
          /\ UNCHANGED ndk
    /\ UNCHANGED <<this, mutex_, callers, conv, destroyed, img, crashed, retired>>

\* lines 181-183: capturing_.store(true); return true
MarkCapturing(t) ==
    /\ At(t, "L181")
    /\ this' = [this EXCEPT !.capturing_ = TRUE]
    /\ th' = ReturnAt(t, 183)
    /\ UNCHANGED <<mutex_, callers, conv, destroyed, ndk, img, crashed, retired>>

\* line 187: std::lock_guard<std::mutex> lock(mutex_) of stopCapture
StopLock(t) ==
    /\ At(t, "L187") /\ mutex_ = "free"
    /\ mutex_' = t
    /\ th' = Goto(t, "L188")
    /\ UNCHANGED <<this, callers, conv, destroyed, ndk, img, crashed, retired>>

\* lines 188-190: not capturing, nothing to do
StopNotCapturing(t) ==
    /\ At(t, "L188")
    /\ ~this.capturing_
    /\ th' = ReturnAt(t, 189)
    /\ UNCHANGED <<this, mutex_, callers, conv, destroyed, ndk, img, crashed, retired>>

\* lines 188-192: capturing, run cleanup()
StopCapturing(t) ==
    /\ At(t, "L188")
    /\ this.capturing_
    /\ th' = [th EXCEPT ![t].pc = "L196", ![t].cont = 193,
                        ![t].stopCb = this.frameCallback_]
    /\ UNCHANGED <<this, mutex_, callers, conv, destroyed, ndk, img, crashed, retired>>

\* variant of Return that leaves mutex_ locked
Return_KeepLock(t) ==
    /\ At(t, "ret")
    /\ th' = [th EXCEPT ![t] = [IdleThread EXCEPT !.afterStop = (th[t].retLine = 193)]]
    /\ destroyed' = (destroyed \/ th[t].op = "destroy")
    /\ retired' = (IF th[t].retLine = 193 THEN retired \cup {th[t].stopCb}
                                           ELSE retired) \cap Held(this, img, th')
    /\ UNCHANGED <<this, mutex_, callers, conv, ndk, img, crashed>>

\* the return of startCapture / stopCapture / the destructor: the lock_guard
\* releases mutex_
Return(t) ==
    /\ At(t, "ret")
    /\ mutex_' = "free"
    /\ th' = [th EXCEPT ![t] = [IdleThread EXCEPT !.afterStop = (th[t].retLine = 193)]]
    /\ destroyed' = (destroyed \/ th[t].op = "destroy")
    /\ retired' = (IF th[t].retLine = 193 THEN retired \cup {th[t].stopCb}
                                           ELSE retired) \cap Held(this, img, th')
    /\ UNCHANGED <<this, callers, conv, ndk, img, crashed>>

\* ---------------------------------------------------------------- cleanup
\* variant of CleanupFlag that leaves capturing_ as it is
CleanupFlag_Keep(t) ==
    /\ At(t, "L196")
    /\ th' = Goto(t, "L198")
    /\ UNCHANGED <<this, mutex_, callers, conv, destroyed, ndk, img, crashed, retired>>

\* line 196: capturing_.store(false)
CleanupFlag(t) ==
    /\ At(t, "L196")
    /\ this' = [this EXCEPT !.capturing_ = FALSE]
    /\ th' = Goto(t, "L198")
    /\ UNCHANGED <<mutex_, callers, conv, destroyed, ndk, img, crashed, retired>>

\* variant of CleanupSession that leaves the session open and goes on
CleanupSession_Skip(t) ==
    /\ At(t, "L198")
    /\ th' = Goto(t, "L204")
    /\ UNCHANGED <<this, mutex_, callers, conv, destroyed, ndk, img, crashed, retired>>

\* lines 198-202: stopRepeating and close the session, null the handle
CleanupSession(t) ==
    /\ At(t, "L198")
    /\ IF this.captureSession_ # 0
       THEN /\ ndk' = [Released(ndk, "session", this.captureSession_) EXCEPT
                          !.repeating = {p \in @ : p[1] # this.captureSession_}]
            /\ this' = [this EXCEPT !.captureSession_ = 0]
       ELSE UNCHANGED <<this, ndk>>
    /\ th' = Goto(t, "L204")
    /\ UNCHANGED <<mutex_, callers, conv, destroyed, img, crashed, retired>>

\* variant of CleanupDevice that nulls the handle without ACameraDevice_close
CleanupDevice_NoClose(t) ==
    /\ At(t, "L204")
    /\ this' = [this EXCEPT !.cameraDevice_ = 0]
    /\ th' = Goto(t, "L209")
    /\ UNCHANGED <<mutex_, callers, conv, destroyed, ndk, img, crashed, retired>>

\* lines 204-207: close the device, null the handle
CleanupDevice(t) ==
    /\ At(t, "L204")
    /\ IF this.cameraDevice_ # 0
       THEN /\ ndk' = [Released(ndk, "device", this.cameraDevice_) EXCEPT
                          !.faulted = @ \ {this.cameraDevice_},
                          !.repeating = {p \in @ : p[3] # this.cameraDevice_}]
            /\ this' = [this EXCEPT !.cameraDevice_ = 0]
       ELSE UNCHANGED <<this, ndk>>
    /\ th' = Goto(t, "L209")
    /\ UNCHANGED <<mutex_, callers, conv, destroyed, img, crashed, retired>>

\* lines 209-212: free the request, null the handle
CleanupRequest(t) ==
    /\ At(t, "L209")
    /\ IF this.captureRequest_ # 0
       THEN /\ ndk' = [Released(ndk, "request", this.captureRequest_) EXCEPT
                          !.requestTargets = @ \ {this.captureRequest_}]
            /\ this' = [this EXCEPT !.captureRequest_ = 0]
       ELSE UNCHANGED <<this, ndk>>
    /\ th' = Goto(t, "L214")
    /\ UNCHANGED <<mutex_, callers, conv, destroyed, img, crashed, retired>>

\* lines 214-217: free the output target, null the handle
CleanupTarget(t) ==
    /\ At(t, "L214")
    /\ IF this.outputTarget_ # 0
       THEN /\ ndk' = Released(ndk, "target", this.outputTarget_)
            /\ this' = [this EXCEPT !.outputTarget_ = 0]
       ELSE UNCHANGED <<this, ndk>>
    /\ th' = Goto(t, "L219")
    /\ UNCHANGED <<mutex_, callers, conv, destroyed, img, crashed, retired>>

\* lines 219-222: free the session output, null the handle
CleanupSessionOutput(t) ==
    /\ At(t, "L219")
    /\ IF this.sessionOutput_ # 0
       THEN /\ ndk' = Released(ndk, "output", this.sessionOutput_)
            /\ this' = [this EXCEPT !.sessionOutput_ = 0]
       ELSE UNCHANGED <<this, ndk>>
    /\ th' = Goto(t, "L224")
    /\ UNCHANGED <<mutex_, callers, conv, destroyed, img, crashed, retired>>

\* lines 224-227: free the output container, null the handle
CleanupContainer(t) ==
    /\ At(t, "L224")
    /\ IF this.outputContainer_ # 0
       THEN /\ ndk' = [Released(ndk, "container", this.outputContainer_) EXCEPT
                          !.containerOutputs = @ \ {this.outputContainer_}]
            /\ this' = [this EXCEPT !.outputContainer_ = 0]
       ELSE UNCHANGED <<this, ndk>>
    /\ th' = Goto(t, "L230")
    /\ UNCHANGED <<mutex_, callers, conv, destroyed, img, crashed, retired>>

\* lines 229-230: the window is owned by the reader: only the reference is
\* cleared, nothing is released
CleanupWindow(t) ==
    /\ At(t, "L230")
    /\ this' = [this EXCEPT !.imageReaderWindow_ = 0]
    /\ th' = Goto(t, "L232")
    /\ UNCHANGED <<mutex_, callers, conv, destroyed, ndk, img, crashed, retired>>

\* variant of CleanupReader that deletes the reader and keeps the handle
CleanupReader_KeepHandle(t) ==
    /\ At(t, "L232")
    /\ IF this.imageReader_ # 0
       THEN ndk' = [Released(ndk, "reader", this.imageReader_) EXCEPT
                       !.listeners = @ \ {this.imageReader_}]
       ELSE UNCHANGED ndk
    /\ th' = Goto(t, "L237")
    /\ UNCHANGED <<this, mutex_, callers, conv, destroyed, img, crashed, retired>>

\* lines 232-235: delete the reader (and with it its window), null the handle
CleanupReader(t) ==
    /\ At(t, "L232")
    /\ IF this.imageReader_ # 0
       THEN /\ ndk' = [Released(ndk, "reader", this.imageReader_) EXCEPT
                          !.listeners = @ \ {this.imageReader_}]
            /\ this' = [this EXCEPT !.imageReader_ = 0]
       ELSE UNCHANGED <<this, ndk>>
    /\ th' = Goto(t, "L237")
    /\ UNCHANGED <<mutex_, callers, conv, destroyed, img, crashed, retired>>

\* line 237: currentCameraId_.clear()
CleanupCameraId(t) ==
    /\ At(t, "L237")
    /\ this' = [this EXCEPT !.currentCameraId_ = 0]
    /\ th' = Goto(t, "L238")
    /\ UNCHANGED <<mutex_, callers, conv, destroyed, ndk, img, crashed, retired>>

\* lines 238-241: frameCallback_ = nullptr, then back to the caller of cleanup():
\* line 42 of startCapture, or the return statement that follows the call
CleanupCallback(t) ==
    /\ At(t, "L238")
    /\ this' = [this EXCEPT !.frameCallback_ = 0]
    /\ th' = IF th[t].cont = 42 THEN Goto(t, "L44") ELSE ReturnAt(t, th[t].cont)
    /\ retired' = retired \cap Held(this', img, th')
    /\ UNCHANGED <<mutex_, callers, conv, destroyed, ndk, img, crashed>>

\* ------------------------------------------------- device notifications
\* The camera service reports the disconnect or the fatal error of an open
\* device once; the device then delivers no further frames.
DeviceFault(d) ==
    [ndk EXCEPT !.faulted = @ \cup {d}, !.repeating = {p \in @ : p[3] # d}]

\* lines 338-342: onDeviceDisconnected, on a thread of the camera service
OnDeviceDisconnected(d) ==
    /\ ~crashed
    /\ d \in ndk.live["device"] \ ndk.faulted
    /\ this' = [this EXCEPT !.capturing_ = FALSE]
    /\ ndk' = DeviceFault(d)
    /\ UNCHANGED <<mutex_, th, callers, conv, destroyed, img, crashed, retired>>

\* lines 344-348: onDeviceError, on a thread of the camera service
OnDeviceError(d) ==
    /\ ~crashed
    /\ d \in ndk.live["device"] \ ndk.faulted
    /\ this' = [this EXCEPT !.capturing_ = FALSE]
    /\ ndk' = DeviceFault(d)
    /\ UNCHANGED <<mutex_, th, callers, conv, destroyed, img, crashed, retired>>

\* ------------------------------------------------------ onImageAvailable
\* The reader's listener thread calls onImageAvailable(this, reader) while a
\* repeating request feeds the reader.  The function takes no lock.
ImageDispatch(r) ==
    /\ ~crashed /\ img.pc = "idle"
    /\ r \in ndk.live["reader"] /\ r \in ndk.listeners
    /\ \E p \in ndk.repeating : p[2] = r
    /\ img' = [IdleImage EXCEPT !.pc = "L247", !.reader = r]
    /\ UNCHANGED <<this, mutex_, th, callers, conv, destroyed, ndk, crashed, retired>>

\* lines 246-250: AImageReader_acquireLatestImage; no image (none queued, or
\* kMaxImages already held): return.  On a reader that cleanup() has deleted
\* meanwhile the call is a use after free, which may also end the process.
AcquireLatestImage ==
    /\ ~crashed /\ img.pc = "L247"
    /\ \/ /\ img' = ImageReturn("no image")
          /\ UNCHANGED <<ndk, crashed>>
       \/ /\ ndk.images < kMaxImages
          /\ ndk' = [ndk EXCEPT !.images = @ + 1]
          /\ img' = [img EXCEPT !.pc = "L252"]
          /\ UNCHANGED crashed
       \/ /\ img.reader \notin ndk.live["reader"]
          /\ crashed' = TRUE
          /\ UNCHANGED <<ndk, img>>
    /\ UNCHANGED <<this, mutex_, th, callers, conv, destroyed, retired>>

\* AImage_delete: an image that is not held is released in error
DeletedImage ==
    IF ndk.images > 0 THEN [ndk EXCEPT !.images = @ - 1]
                      ELSE [ndk EXCEPT !.misreleased = @ \cup {"image"}]

\* variant of CheckCallback that returns at line 254 without AImage_delete
CheckCallback_NoDelete ==
    /\ ~crashed /\ img.pc = "L252"
    /\ IF this.frameCallback_ = 0
       THEN img' = ImageReturn("no callback")
       ELSE img' = [img EXCEPT !.pc = "L268", !.seen = this.frameCallback_]
    /\ retired' = retired \cap Held(this, img', th)
    /\ UNCHANGED <<this, mutex_, th, callers, conv, destroyed, ndk, crashed>>

\* lines 252-255: no callback registered: AImage_delete and return
CheckCallback ==
    /\ ~crashed /\ img.pc = "L252"
    /\ IF this.frameCallback_ = 0
       THEN /\ ndk' = DeletedImage
            /\ img' = ImageReturn("no callback")
       ELSE /\ img' = [img EXCEPT !.pc = "L268", !.seen = this.frameCallback_]
            /\ UNCHANGED ndk
    /\ retired' = retired \cap Held(this, img', th)
    /\ UNCHANGED <<this, mutex_, th, callers, conv, destroyed, crashed>>

\* lines 258-330: read the image properties and the three plane pointers; with
\* all three present the planes are packed into the I420 buffer, otherwise the
\* frame is skipped.  After cleanup() deleted the reader the plane pointers
\* dangle and reading them may end the process.
ReadPlanes ==
    /\ ~crashed /\ img.pc = "L268"
    /\ \/ /\ img' = [img EXCEPT !.pc = "L332", !.reader = 0]
          /\ UNCHANGED crashed
       \/ /\ img' = [img EXCEPT !.pc = "L335", !.reader = 0, !.seen = 0]
          /\ UNCHANGED crashed
       \/ /\ img.reader \notin ndk.live["reader"]
          /\ crashed' = TRUE
          /\ UNCHANGED img
    /\ retired' = retired \cap Held(this, img', th)
    /\ UNCHANGED <<this, mutex_, th, callers, conv, destroyed, ndk>>

\* line 332: self->frameCallback_(...).  The read is not ordered with the
\* writes of startCapture (line 51) and cleanup (line 238): it yields the
\* current value or the one the check at line 252 saw.  Calling an empty
\* std::function throws std::bad_function_call, which nothing catches.
InvokeCallback ==
    /\ ~crashed /\ img.pc = "L332"
    /\ \E c \in {this.frameCallback_, img.seen} :
          IF c = 0
          THEN crashed' = TRUE /\ UNCHANGED img
          ELSE /\ img' = [img EXCEPT !.pc = "L335", !.seen = 0, !.late = (c \in retired)]
               /\ UNCHANGED crashed
    /\ retired' = retired \cap Held(this, img', th)
    /\ UNCHANGED <<this, mutex_, th, callers, conv, destroyed, ndk>>

\* line 335: AImage_delete(image), return
DeleteImage ==
    /\ ~crashed /\ img.pc = "L335"
    /\ ndk' = DeletedImage
    /\ img' = ImageReturn("released")
    /\ retired' = retired \cap Held(this, img', th)
    /\ UNCHANGED <<this, mutex_, th, callers, conv, destroyed, crashed>>

\* ------------------------------------------- I420 packing, lines 278-332
\* A YUV_420_888 image as the AImage_get* calls of lines 259-283 describe it:
\* plane 0 is Y, plane 1 is U, plane 2 is V.  The luma row stride is at least
\* the width; the two chroma planes share row stride and pixel stride, as the
\* format guarantees.
Image(w, h, yPad, cPad, ps) ==
    [width |-> w, height |-> h,
     rowStride |-> [p \in 0..2 |-> IF p = 0 THEN w + yPad ELSE (w \div 2) * ps + cPad],
     pixelStride |-> [p \in 0..2 |-> IF p = 0 THEN 1 ELSE ps]]

Images ==
    {Image(w, h, yPad, cPad, ps) :
        w \in 1..MaxDim, h \in 1..MaxDim, yPad \in 0..MaxPadding,
        cPad \in 0..MaxPadding, ps \in 1..MaxPixelStride}

\* more than the largest offset read in a plane
PlaneSpan == (MaxDim + MaxPadding + 1) * (MaxDim + 1) * MaxPixelStride

\* the byte at offset i of plane p (yData[i], uData[i], vData[i]).  Every
\* offset of every plane holds its own value, other than the 0 the buffer is
\* filled with, so that a byte copied from the wrong place is told apart.
Sample(p, i) == 1 + p * PlaneSpan + i

\* line 290: std::vector<uint8_t> i420Buffer(size), zero-filled; overrun
\* records a write outside the vector
NewBuffer(size) == [bytes |-> [i \in 0..(size - 1) |-> 0], overrun |-> FALSE]

\* memcpy(b.data() + dst, plane p + src, n)
Memcpy(b, dst, p, src, n) ==
    [bytes |-> [i \in DOMAIN b.bytes |->
                   IF dst <= i /\ i < dst + n THEN Sample(p, src + (i - dst))
                                               ELSE b.bytes[i]],
     overrun |-> b.overrun \/ (n > 0 /\ \E i \in dst..(dst + n - 1) : i \notin DOMAIN b.bytes)]

\* lines 296-300: the row-by-row luma loop, from `row` on
RECURSIVE LumaRows(_, _, _)
LumaRows(b, im, row) ==
    IF row < im.height
    THEN LumaRows(Memcpy(b, row * im.width, 0, row * im.rowStride[0], im.width),
                  im, row + 1)
    ELSE b

\* lines 315-320: the row-by-row loop over planar chroma, from `row` on
\* c: uvWidth, uvHeight, uDst, vDst, uvRowStride, uvPixelStride of lines 280-307
RECURSIVE ChromaRows(_, _, _)
ChromaRows(b, c, row) ==
    IF row < c.uvHeight
    THEN ChromaRows(
             Memcpy(Memcpy(b, c.uDst + row * c.uvWidth, 1, row * c.uvRowStride, c.uvWidth),
                    c.vDst + row * c.uvWidth, 2, row * c.uvRowStride, c.uvWidth),
             c, row + 1)
    ELSE b

\* lines 324-329: the de-interleaving loops, from (row, col) on
RECURSIVE ChromaPixels(_, _, _, _)
ChromaPixels(b, c, row, col) ==
    IF row >= c.uvHeight THEN b
    ELSE IF col >= c.uvWidth THEN ChromaPixels(b, c, row + 1, 0)
    ELSE ChromaPixels(
             Memcpy(Memcpy(b, c.uDst + row * c.uvWidth + col, 1,
                           row * c.uvRowStride + col * c.uvPixelStride, 1),
                    c.vDst + row * c.uvWidth + col, 2,
                    row * c.uvRowStride + col * c.uvPixelStride, 1),
             c, row, col + 1)

\* lines 282-283 and 304-307: the chroma strides, read from plane 1 only, and
\* the chroma geometry
ChromaLayout(im) ==
    [uvRowStride |-> im.rowStride[1], uvPixelStride |-> im.pixelStride[1],
     uvWidth |-> im.width \div 2, uvHeight |-> im.height \div 2,
     uDst |-> im.width * im.height,
     vDst |-> im.width * im.height + (im.width \div 2) * (im.height \div 2)]

\* an image with its three planes present has reached line 278
FrameAt278(im) ==
    [pc |-> "L286", image |-> im, i420Size |-> 0, buf |-> NewBuffer(0),
     size |-> 0, data |-> <<>>]

\* variant of AllocateBuffer that makes room for the luma plane only
AllocateBuffer_LumaOnly ==
    /\ conv.pc = "L286"
    /\ LET n == conv.image.width * conv.image.height
       IN  conv' = [conv EXCEPT !.pc = "L293", !.i420Size = n, !.buf = NewBuffer(n)]
    /\ UNCHANGED <<this, mutex_, th, callers, destroyed, ndk, img, crashed, retired>>

\* lines 285-290: i420Size = width * height * 3 / 2, allocate the buffer
AllocateBuffer ==
    /\ conv.pc = "L286"
    /\ LET n == (conv.image.width * conv.image.height * 3) \div 2
       IN  conv' = [conv EXCEPT !.pc = "L293", !.i420Size = n, !.buf = NewBuffer(n)]
    /\ UNCHANGED <<this, mutex_, th, callers, destroyed, ndk, img, crashed, retired>>

\* variant of CopyLuma that always copies in one piece, padding included
CopyLuma_Bulk ==
    /\ conv.pc = "L293"
    /\ conv' = [conv EXCEPT
                    !.pc = "L304",
                    !.buf = Memcpy(conv.buf, 0, 0, 0, conv.image.width * conv.image.height)]
    /\ UNCHANGED <<this, mutex_, th, callers, destroyed, ndk, img, crashed, retired>>

\* lines 292-301: copy the Y plane, in one piece when the rows are not padded
CopyLuma ==
    /\ conv.pc = "L293"
    /\ LET im == conv.image
       IN  conv' = [conv EXCEPT
                       !.pc = "L304",
                       !.buf = IF im.rowStride[0] = im.width
                               THEN Memcpy(conv.buf, 0, 0, 0, im.width * im.height)
                               ELSE LumaRows(conv.buf, im, 0)]
    /\ UNCHANGED <<this, mutex_, th, callers, destroyed, ndk, img, crashed, retired>>

\* variant of CopyChroma that copies row by row whatever the pixel stride
CopyChroma_Planar ==
    /\ conv.pc = "L304"
    /\ conv' = [conv EXCEPT !.pc = "L332",
                            !.buf = ChromaRows(conv.buf, ChromaLayout(conv.image), 0)]
    /\ UNCHANGED <<this, mutex_, th, callers, destroyed, ndk, img, crashed, retired>>

\* lines 303-330: copy the U and V planes behind the luma, de-interleaving
\* them when the pixel stride is not 1
CopyChroma ==
    /\ conv.pc = "L304"
    /\ LET c == ChromaLayout(conv.image)
       IN  conv' = [conv EXCEPT
                       !.pc = "L332",
                       !.buf = IF c.uvPixelStride = 1
                               THEN IF c.uvRowStride = c.uvWidth
                                    THEN Memcpy(Memcpy(conv.buf, c.uDst, 1, 0,
                                                       c.uvWidth * c.uvHeight),
                                                c.vDst, 2, 0, c.uvWidth * c.uvHeight)
                                    ELSE ChromaRows(conv.buf, c, 0)
                               ELSE ChromaPixels(conv.buf, c, 0, 0)]
    /\ UNCHANGED <<this, mutex_, th, callers, destroyed, ndk, img, crashed, retired>>

\* line 332: the consumer receives i420Buffer.data() and i420Size
DeliverFrame ==
    /\ conv.pc = "L332"
    /\ conv' = [conv EXCEPT !.pc = "L335", !.data = conv.buf.bytes,
                            !.size = conv.i420Size]
    /\ UNCHANGED <<this, mutex_, th, callers, destroyed, ndk, img, crashed, retired>>

\* ----------------------------------------------------------- specification
StartCapture(t) ==
    \/ StartLock(t) \/ StartSameCamera(t) \/ StartSwitch(t) \/ StartNotCapturing(t)
    \/ StartCheckManager(t) \/ NewImageReader(t) \/ SetImageListener(t)
    \/ GetWindow(t) \/ OpenCamera(t) \/ CreateOutputTarget(t)
    \/ CreateCaptureRequest(t) \/ AddTarget(t) \/ CreateOutputContainer(t)
    \/ CreateSessionOutput(t) \/ AddOutput(t) \/ CreateCaptureSession(t)
    \/ SetRepeatingRequest(t) \/ MarkCapturing(t)

StopCapture(t) == StopLock(t) \/ StopNotCapturing(t) \/ StopCapturing(t)

Cleanup(t) ==
    \/ CleanupFlag(t) \/ CleanupSession(t) \/ CleanupDevice(t) \/ CleanupRequest(t)
    \/ CleanupTarget(t) \/ CleanupSessionOutput(t) \/ CleanupContainer(t)
    \/ CleanupWindow(t) \/ CleanupReader(t) \/ CleanupCameraId(t)
    \/ CleanupCallback(t)

OnImageAvailable ==
    \/ AcquireLatestImage \/ CheckCallback \/ ReadPlanes \/ InvokeCallback
    \/ DeleteImage

Next ==
    \/ \E t \in Threads :
          \/ CallStartCapture(t) \/ CallStopCapture(t) \/ CallDestructor(t)
          \/ StartCapture(t) \/ StopCapture(t) \/ Cleanup(t) \/ Return(t)
    \/ \E d \in Ids : OnDeviceDisconnected(d) \/ OnDeviceError(d)
    \/ \E r \in Ids : ImageDispatch(r)
    \/ OnImageAvailable

Spec == Init /\ [][Next]_vars

\* two application threads calling into the bridge while the camera service
\* delivers its device notifications; no image is delivered
CallersInit == InitWith(Threads)

CallersNext ==
    \/ \E t \in Threads :
          \/ CallStartCapture(t) \/ CallStopCapture(t) \/ CallDestructor(t)
          \/ StartCapture(t) \/ StopCapture(t) \/ Cleanup(t) \/ Return(t)
    \/ \E d \in Ids : OnDeviceDisconnected(d) \/ OnDeviceError(d)

CallersSpec == CallersInit /\ [][CallersNext]_vars

\* Fair scheduling: a thread inside a call keeps running, and a thread that
\* waits for mutex_ obtains it when it is released again and again.  Nothing
\* obliges a caller to call or the camera service to report a fault.
FairCallersSpec ==
    /\ CallersSpec
    /\ \A t \in Threads :
          /\ WF_vars(StartCapture(t) \/ StopCapture(t) \/ Cleanup(t) \/ Return(t))
          /\ SF_vars(StartLock(t) \/ StopLock(t))

PackInit ==
    /\ this = NewBridge
    /\ mutex_ = "free"
    /\ th = [t \in Threads |-> IdleThread]
    /\ callers = {}
    /\ destroyed = FALSE
    /\ ndk = NoObjects
    /\ img = IdleImage
    /\ crashed = FALSE
    /\ retired = {}
    /\ conv \in {FrameAt278(im) : im \in Images}

PackNext == AllocateBuffer \/ CopyLuma \/ CopyChroma \/ DeliverFrame

PackSpec == PackInit /\ [][PackNext]_vars

\* ------------------------------------------------------------- properties
\* the handle of the instance that refers to the object of kind k
Handle(k) ==
    CASE k = "reader" -> this.imageReader_
      [] k = "device" -> this.cameraDevice_
      [] k = "target" -> this.outputTarget_
      [] k = "request" -> this.captureRequest_
      [] k = "container" -> this.outputContainer_
      [] k = "output" -> this.sessionOutput_
      [] k = "session" -> this.captureSession_

AllHandlesNull == this.imageReaderWindow_ = 0 /\ \A k \in Kinds : Handle(k) = 0

AllHandlesSet == this.imageReaderWindow_ # 0 /\ \A k \in Kinds : Handle(k) # 0

\* C1: whenever no thread is inside startCapture, stopCapture or cleanup, the
\* handles are all populated with capturing_ true, or all null with
\* capturing_ false.
AllOrNothing ==
    mutex_ = "free" =>
        \/ AllHandlesSet /\ this.capturing_
        \/ AllHandlesNull /\ ~this.capturing_

\* C2: when startCapture returns after a failed construction step it returns
\* false, every resource the call acquired has been released, every handle is
\* null, capturing_ is false, the camera id is empty and the callback dropped.
RollbackComplete ==
    \A t \in Threads :
        (th[t].pc = "ret" /\ th[t].op = "start" /\ th[t].retLine \in FailLines) =>
            /\ ~RetValue(th[t].retLine)
            /\ \A r \in th[t].acquired : r[2] \notin ndk.live[r[1]]
            /\ AllHandlesNull
            /\ ~this.capturing_
            /\ this.currentCameraId_ = 0
            /\ this.frameCallback_ = 0

\* a start that failed at its last step, setRepeatingRequest, with all seven
\* objects acquired, has returned
RollbackComplete_Witness ==
    \E t \in Threads :
        /\ th[t].pc = "ret" /\ th[t].retLine = 178
        /\ Cardinality(th[t].acquired) = 7

\* C3: whenever stopCapture (the destructor's call included) returns, no
\* resource acquired by an earlier startCapture remains unreleased and every
\* handle is null, also when a disconnect or error came before the stop.
StopTearsDown ==
    \A t \in Threads :
        (th[t].pc = "ret" /\ th[t].op \in {"stop", "destroy"}) =>
            /\ AllHandlesNull
            /\ \A k \in Kinds : ndk.live[k] = {}

\* C4: at most one camera device, one image reader and one capture session
\* are alive, and no live object has lost its handle to a newer one.
AtMostOnePipeline ==
    /\ \A k \in {"device", "reader", "session"} : Cardinality(ndk.live[k]) <= 1
    /\ \A k \in Kinds : \A i \in ndk.live[k] : Handle(k) = i

\* C5: on a switch to another camera, when cleanup() has returned to line 42
\* and no construction step of the new call has executed, every resource of
\* the old pipeline has been released and its repeating request stopped.
SwitchTearsDownFirst ==
    \A t \in Threads :
        (th[t].pc = "L44" /\ th[t].oldPipe # {}) =>
            /\ th[t].acquired = {}
            /\ \A r \in th[t].oldPipe : r[2] \notin ndk.live[r[1]]
            /\ \A p \in ndk.repeating : <<"session", p[1]>> \notin th[t].oldPipe

\* a switch has torn down a complete pipeline of seven objects
SwitchTearsDownFirst_Witness ==
    \E t \in Threads : th[t].pc = "L44" /\ Cardinality(th[t].oldPipe) = 7

\* C6: startCapture for the camera that is being captured, with capturing_
\* true at line 35, returns true at line 38 and changes neither a field of
\* the instance (the callback included) nor any NDK object.
SameCameraIsNoOp ==
    [][\A t \in Threads :
          (/\ th[t].pc = "L35" /\ th'[t].pc # "L35"
           /\ this.capturing_ /\ this.currentCameraId_ = th[t].cameraId) =>
              /\ th'[t].pc = "ret" /\ th'[t].retLine = 38 /\ RetValue(38)
              /\ this' = this
              /\ ndk' = ndk]_vars

\* a start for the camera in use has returned at line 38, its own callback
\* not being the installed one
SameCameraIsNoOp_Witness ==
    \E t \in Threads :
        /\ th[t].pc = "ret" /\ th[t].retLine = 38
        /\ th[t].callback # 0 /\ th[t].callback # this.frameCallback_
        /\ this.frameCallback_ # 0

\* C7: once a device reported a disconnect or an error, capturing_ is false
\* for as long as that device has not been closed.
FaultKeepsNotCapturing == this.capturing_ => ndk.faulted = {}

\* C8: no callback of a session that a returned stopCapture tore down is
\* invoked after that return.
NoCallbackAfterStop == ~img.late

\* C9: an image acquired by onImageAvailable is released exactly once before
\* the function returns, on every path; with no image nothing is released.
ImageReleasedOnce ==
    /\ ndk.images = (IF img.pc \in {"L252", "L268", "L332", "L335"} THEN 1 ELSE 0)
    /\ "image" \notin ndk.misreleased

\* onImageAvailable has returned from line 335 with its image released
ImageReleasedOnce_Witness ==
    img.pc = "idle" /\ img.path = "released" /\ ndk.images = 0

\* C10: no resource is released while it is not live (a second release, or a
\* release of something never acquired), and the window is never released.
NoDoubleRelease == ndk.misreleased \cap (Kinds \cup {"window"}) = {}

\* a second stopCapture in a row has returned at line 189
NoDoubleRelease_Witness ==
    \E t \in Threads :
        /\ th[t].pc = "ret" /\ th[t].retLine = 189 /\ th[t].afterStop
        /\ \A k \in Kinds : ndk.live[k] = {}

\* C11: for every width, height and luma row stride >= width, byte
\* row*width + col of the delivered buffer is byte row*rowStride + col of the
\* Y plane, for all row < height and col < width, in the bulk branch and in
\* the row-by-row branch.
LumaPacked ==
    (conv.pc = "L335" /\ conv.image.rowStride[0] >= conv.image.width) =>
        \A row \in 0..(conv.image.height - 1), col \in 0..(conv.image.width - 1) :
            /\ row * conv.image.width + col \in DOMAIN conv.data
            /\ conv.data[row * conv.image.width + col]
                  = Sample(0, row * conv.image.rowStride[0] + col)

\* a frame with padded luma rows, packed row by row, has been delivered
LumaPacked_Witness ==
    /\ conv.pc = "L335"
    /\ conv.image.rowStride[0] > conv.image.width
    /\ conv.image.height >= 2 /\ conv.image.width >= 2

CleanupOrder ==
    <<"captureSession_", "cameraDevice_", "captureRequest_", "outputTarget_",
      "sessionOutput_", "outputContainer_", "imageReaderWindow_", "imageReader_",
      "currentCameraId_", "frameCallback_">>

\* C13: cleanup releases in this order: session (repeating request stopped),
\* device, request, output target, session output, output container, window
\* reference, reader, and only then the camera id and the callback.  A step
\* that clears one of these finds all earlier ones cleared; an object is
\* released by the step that nulls its handle; the reader is not destroyed
\* while the session or the device is open or a repeating request feeds it.
CleanupInOrder ==
    [][/\ \A n \in 1..Len(CleanupOrder) :
             (this[CleanupOrder[n]] # 0 /\ this'[CleanupOrder[n]] = 0) =>
                 \A m \in 1..(n - 1) : this[CleanupOrder[m]] = 0
       /\ \A k \in Kinds : \A i \in ndk.live[k] \ ndk'.live[k] :
             Handle(k) = i /\ Handle(k)' = 0
       /\ \A r \in ndk.live["reader"] \ ndk'.live["reader"] :
             /\ this.captureSession_ = 0 /\ this.cameraDevice_ = 0
             /\ \A q \in ndk.repeating : q[2] # r]_vars

\* cleanup() after a start that failed at its last step has released the
\* seven objects and is about to clear the camera id
CleanupInOrder_Witness ==
    \E t \in Threads :
        /\ th[t].pc = "L237" /\ th[t].cont = 178
        /\ Cardinality(th[t].acquired) = 7
        /\ AllHandlesNull /\ this.currentCameraId_ # 0

\* C14: onImageAvailable never invokes an empty frame callback: cleanup
\* cannot clear the callback between the check at line 252 and the call at
\* line 332, so no run ends in the call of an empty std::function.
NeverInvokesEmptyCallback == ~(crashed /\ img.pc = "L332")

\* C15: onImageAvailable never uses the reader, an image acquired from it or
\* that image's plane data after cleanup destroyed the reader: the acquire at
\* line 247, the release at line 253 and the plane reads of lines 258-330
\* happen while the reader of the delivery exists.
ReaderOutlivesDelivery ==
    [][(\/ img.pc \in {"L247", "L268"} /\ (img' # img \/ crashed' # crashed)
        \/ img.pc = "L252" /\ img'.pc = "idle")
           => img.reader \in ndk.live["reader"]]_vars

\* thread t executes the body of startCapture, stopCapture or cleanup
InBody(t) == th[t].pc \notin {"idle", "L33", "L187"}

\* C16: at most one thread at a time executes the body of startCapture,
\* stopCapture or cleanup, always as the holder of mutex_ (cleanup included),
\* and every write of a pipeline handle, the camera id or the frame callback
\* is a step of the thread that holds mutex_.
MutuallyExclusive ==
    [][/\ \A t \in Threads : InBody(t) => mutex_ = t
       /\ \A t \in Threads : InBody(t)' => mutex_' = t
       /\ (\E n \in 1..Len(CleanupOrder) : this'[CleanupOrder[n]] # this[CleanupOrder[n]])
             => /\ mutex_ \in Threads /\ InBody(mutex_)
                /\ th'[mutex_] # th[mutex_]
                /\ \A u \in Threads \ {mutex_} : th'[u] = th[u]]_vars

\* one thread runs cleanup() inside the lock while the other waits for it
MutuallyExclusive_Witness ==
    \E t \in Threads, u \in Threads :
        /\ t # u /\ mutex_ = t /\ th[t].pc = "L204" /\ this.cameraDevice_ # 0
        /\ th[u].pc \in {"L33", "L187"}

FailedSwitchTearsDown ==
    \A t \in Threads :
        /\ (th[t].oldPipe # {} /\ th[t].pc \in {"L44", "ret"}) =>
               /\ \A r \in th[t].oldPipe : r[2] \notin ndk.live[r[1]]
               /\ AllHandlesNull /\ ~this.capturing_
               /\ this.currentCameraId_ = 0 /\ this.frameCallback_ = 0
               /\ th[t].pc = "ret" => (th[t].retLine = 46 /\ ~RetValue(46))
        /\ (th[t].pc = "ret" /\ th[t].op = "start" /\ th[t].retLine \in FailLines) =>
               /\ ~RetValue(th[t].retLine)
               /\ AllHandlesNull /\ ~this.capturing_
               /\ \A r \in th[t].acquired : r[2] \notin ndk.live[r[1]]

\* a switch away from a complete pipeline has found the provider invalid and
\* is returning false at line 46
FailedSwitchTearsDown_Witness ==
    \E t \in Threads :
        /\ th[t].pc = "ret" /\ th[t].retLine = 46
        /\ Cardinality(th[t].oldPipe) = 7

BufferHoldsRegions ==
    conv.pc \in {"L293", "L304", "L332", "L335"} =>
        LET w == conv.image.width
            h == conv.image.height
            c == ChromaLayout(conv.image)
            n == (w * h * 3) \div 2
            luma == 0..(w * h - 1)
            U == c.uDst..(c.uDst + (w \div 2) * (h \div 2) - 1)
            V == c.vDst..(c.vDst + (w \div 2) * (h \div 2) - 1)
        IN  /\ conv.i420Size = n
            /\ DOMAIN conv.buf.bytes = 0..(n - 1)
            /\ ~conv.buf.overrun
            /\ c.uDst = w * h /\ c.vDst = c.uDst + (w \div 2) * (h \div 2)
            /\ luma \cap U = {} /\ luma \cap V = {} /\ U \cap V = {}
            /\ (luma \cup U \cup V) \subseteq 0..(n - 1)
            /\ conv.pc = "L335" => (conv.size = n /\ DOMAIN conv.data = 0..(n - 1))

\* a 3x3 frame, odd in both dimensions, has been delivered
BufferHoldsRegions_Witness ==
    /\ conv.pc = "L335"
    /\ conv.image.width = 3 /\ conv.image.height = 3

====
